---- MODULE Spec2Model ----
(***************************************************************************)
(* Model of api_pinecone.py: the process-wide Pinecone connection state    *)
(* (pc, index, connection_attempts), the recursive reconnect routine       *)
(* conectar_pinecone, and the request handlers read_root,                  *)
(* listar_contratos, buscar_contratos and listar_arquivos with their       *)
(* reconnect-and-replay exception handlers.                                *)
(*                                                                         *)
(* Every call to an external service (Pinecone client construction, index  *)
(* open, describe_index_stats, query, OpenAI embeddings) is one step whose *)
(* outcome (success or exception) is chosen nondeterministically.  Every   *)
(* read and every write of a global is a step of its own, so that request  *)
(* threads interleave as the threads of the server's pool do.              *)
(***************************************************************************)
EXTENDS Integers, Sequences, FiniteSets, TLC

\* ------------------------------------------------------------------ bounds
MaxDepth == 3        \* nested replays of one handler that are followed
MaxCounter == 4      \* largest value of connection_attempts that is followed
MaxAttempts == 4     \* attempts of one conectar_pinecone call that are followed
MaxSkip == 1         \* skip ranges over 0..MaxSkip
MaxLimit == 2        \* limit ranges over 0..MaxLimit
MaxVectors == 2      \* the index holds 0..MaxVectors vectors

\* --------------------------------------------------------------- constants
MAX_RECONNECT_ATTEMPTS == 3
FILES_CAP == 1000
NoHandle == 0

Callers == {1, 2}
Handles == {1, 2}
Ops == {"list", "search", "files"}

\* Metadata dictionaries of the stored vectors: a key may be missing.
Metas ==
  { [arquivo |-> "a.pdf", texto |-> "x"],
    [arquivo |-> "b.pdf"],
    [texto |-> "y"] }
Scores == {1, 2}
Matches == [metadata : Metas, score : Scores]

\* total_vector_count values: small indexes, and one above the cap of line 311
VectorCounts == (0..MaxVectors) \cup {FILES_CAP + 1}

\* -------------------------------------------------------------- pure parts
Min(a, b) == IF a <= b THEN a ELSE b

NonIncreasing(ms) ==
  \A i \in 1..(Len(ms) - 1) : ms[i].score >= ms[i + 1].score

SeqsUpTo(S, n) == UNION { [1..k -> S] : k \in 0..n }

\* What index.query(top_k = k) may return: at most k matches, at most as
\* many as the index holds, ranked by descending similarity.  Answers of
\* more than MaxVectors matches are not followed.
StoreAnswers(k, held) ==
  { ms \in SeqsUpTo(Matches, Min(Min(k, held), MaxVectors)) : NonIncreasing(ms) }

\* dict.get(key, "")
MetaGet(m, key) == IF key \in DOMAIN m THEN m[key] ELSE ""

\* ContratoResponse(arquivo=..., texto=..., score=match.score)
ContratoResponse(match) ==
  [arquivo |-> MetaGet(match.metadata, "arquivo"),
   texto |-> MetaGet(match.metadata, "texto"),
   score |-> match.score]

MapMatches(ms) == [i \in 1..Len(ms) |-> ContratoResponse(ms[i])]

\* Python slice ms[skip : skip + limit] for skip, limit >= 0
SliceWrongEnd(ms, skip, limit) ==
  IF skip + 1 > Min(limit, Len(ms)) THEN <<>>
  ELSE SubSeq(ms, skip + 1, Min(limit, Len(ms)))

Slice(ms, skip, limit) ==
  IF skip + 1 > Min(skip + limit, Len(ms)) THEN <<>>
  ELSE SubSeq(ms, skip + 1, Min(skip + limit, Len(ms)))

\* resultados_query.matches[skip:skip+limit] if resultados_query.matches else []
Page(ms, skip, limit) == IF ms # <<>> THEN Slice(ms, skip, limit) ELSE <<>>

\* match.metadata.get("arquivo"): "" stands for a missing (None) value
Arquivo(match) == MetaGet(match.metadata, "arquivo")

\* arquivos = set(); for match in matches: if arquivo: arquivos.add(arquivo)
Arquivos(ms) == { Arquivo(ms[i]) : i \in 1..Len(ms) } \ {""}

\* list(arquivos): the elements of the set, each once, in some order
RECURSIVE ListOfSet(_)
ListOfSet(S) ==
  IF S = {} THEN <<>>
  ELSE LET x == CHOOSE y \in S : TRUE IN <<x>> \o ListOfSet(S \ {x})

\* the truthy "arquivo" values of the matches, one per match
RECURSIVE ArquivosOfAll(_)
ArquivosOfAll(ms) ==
  IF ms = <<>> THEN <<>>
  ELSE (IF Arquivo(ms[1]) # "" THEN <<Arquivo(ms[1])>> ELSE <<>>)
         \o ArquivosOfAll(SubSeq(ms, 2, Len(ms)))

NoErr == [kind |-> "none", n |-> 0]
Err(kind, n) == [kind |-> kind, n |-> n]

NoResult ==
  [code |-> 0, status |-> "", pinecone_status |-> "", resultados |-> <<>>,
   total |-> 0, arquivos |-> <<>>, detail |-> NoErr]

\* HTTPException(status_code=400)
Fail400 == [NoResult EXCEPT !.code = 400, !.detail = Err("empty", 0)]
\* HTTPException(status_code=503)
Fail503 == [NoResult EXCEPT !.code = 503, !.detail = Err("unavailable", 0)]
\* HTTPException(status_code=500, detail=f"...: {str(e)}")
Fail500(err) == [NoResult EXCEPT !.code = 500, !.detail = err]

\* SearchResponse(resultados=resultados, total=total) of listar_contratos
ListResponse(ms, skip, limit, total) ==
  [NoResult EXCEPT !.code = 200,
                   !.resultados = MapMatches(Page(ms, skip, limit)),
                   !.total = total]

SearchResponseNoTotal(ms) ==
  [NoResult EXCEPT !.code = 200, !.resultados = MapMatches(ms)]

\* SearchResponse(resultados=resultados, total=len(resultados)) of buscar_contratos
SearchResponse(ms) ==
  [NoResult EXCEPT !.code = 200,
                   !.resultados = MapMatches(ms),
                   !.total = Len(MapMatches(ms))]

FilesResponseNoSet(ms) ==
  [NoResult EXCEPT !.code = 200, !.arquivos = ArquivosOfAll(ms)]

\* {"arquivos": list(arquivos)}
FilesResponse(ms) ==
  [NoResult EXCEPT !.code = 200, !.arquivos = ListOfSet(Arquivos(ms))]

\* top_k of the query each handler issues
TopK(o, a, total) ==
  CASE o = "list" -> a.skip + a.limit
    [] o = "search" -> a.limit
    [] OTHER -> Min(total, FILES_CAP)

\* What reaches the client once the innermost execution ends with r, the
\* enclosing executions having caught the errors es (outermost first): each
\* enclosing frame returns the replay's value, or swallows its exception and
\* raises 500 with its own error.
RECURSIVE UnwindDrop(_, _)
UnwindDrop(es, r) ==
  IF es = <<>> THEN r
  ELSE UnwindDrop(SubSeq(es, 1, Len(es) - 1), Fail500(es[Len(es)]))

RECURSIVE Unwind(_, _)
Unwind(es, r) ==
  IF es = <<>> THEN r
  ELSE Unwind(SubSeq(es, 1, Len(es) - 1),
              IF r.code = 200 THEN r ELSE Fail500(es[Len(es)]))

\* first statement of a handler
FirstStepNoCheck(o) == "pre"

FirstStep(o) == IF o = "search" THEN "qcheck" ELSE "pre"

HandleAssumed(i) == TRUE

\* truth value of `index` in `if index:` and `not index`
HasHandle(i) == i # NoHandle

\* first statement of the try block of a handler
BodyStart(o) == IF o = "search" THEN "embed" ELSE "stats"

\* `not index and not conectar_pinecone()` once conectar_pinecone returned:
\* TRUE when the handler raises 503
UnavailableIgnored(connected) == FALSE

Unavailable(connected) == ~connected

\* ------------------------------------------------------------------- state
VARIABLES
  pc,                   \* global pc: TRUE once a Pinecone client is stored
  index,                \* global index: NoHandle (None) or a handle
  connection_attempts,  \* global failure counter
  vectors,              \* total_vector_count of the Pinecone index
  active,               \* the threads that serve requests in this run
  probed,               \* the handle in index if its describe_index_stats has
                        \* answered inside conectar_pinecone, else NoHandle
  loc,                  \* loc[c]: the statement thread c is at
  op,                   \* op[c]: the handler thread c runs
  args,                 \* args[c]: skip, limit, q of the request
  cont,                 \* cont[c]: the call site conectar_pinecone returns to
  cret,                 \* cret[c]: conectar_pinecone's return value
  tmp,                  \* tmp[c]: connection_attempts as read for the +=
  errs,                 \* errs[c]: e of the enclosing executions, outermost first
  e,                    \* e[c]: e of the current execution
  total,                \* total[c]: local total of the handler
  result,               \* result[c]: response or HTTPException of the request
  obs                   \* obs[c]: what the calls of the request did so far

vars ==
  <<pc, index, connection_attempts, vectors, active, probed, loc, op, args, cont,
    cret, tmp, errs, e, total, result, obs>>

globals == <<pc, index, connection_attempts>>

NoArgs == [skip |-> 0, limit |-> 0, q |-> ""]

\* Counters of one request, started when the request starts.
NoObs ==
  [body |-> 0,      \* executions of the try block
   conn |-> 0,      \* calls of conectar_pinecone
   preconn |-> 0,   \* those made by the check `not index and not ...`
   connOk |-> 0,    \* calls of conectar_pinecone that returned True
   att |-> 0,       \* attempts of the current conectar_pinecone call
   delay |-> 0,     \* sleeps of the current conectar_pinecone call
   embed |-> 0,     \* calls of gerar_embedding
   store |-> 0,     \* describe_index_stats/query calls of the handler
   statsOk |-> 0,   \* describe_index_stats calls that answered, probes included
   hist |-> <<>>,   \* how each execution of the try block ended
   vec |-> "",      \* vector of the last query
   topk |-> 0,      \* top_k of the last query
   resp |-> <<>>,   \* matches returned by the last query
   stat |-> 0]      \* count returned by the last describe_index_stats

\* A handle object that is not the one index refers to.
NewHandle == CHOOSE h \in Handles : h # index

\* Module load: globals at lines 29-31, then line 68 calls conectar_pinecone
\* on the main thread before any request is served.
InitWith(threads) ==
  /\ pc = FALSE
  /\ index = NoHandle
  /\ connection_attempts = 0
  /\ vectors \in VectorCounts
  /\ active = threads
  /\ probed = NoHandle
  /\ loc = [c \in Callers |-> IF c = 1 THEN "c_open" ELSE "idle"]
  /\ op = [c \in Callers |-> IF c = 1 THEN "startup" ELSE "none"]
  /\ args = [c \in Callers |-> NoArgs]
  /\ cont = [c \in Callers |-> IF c = 1 THEN "startup" ELSE "none"]
  /\ cret = [c \in Callers |-> FALSE]
  /\ tmp = [c \in Callers |-> 0]
  /\ errs = [c \in Callers |-> <<>>]
  /\ e = [c \in Callers |-> NoErr]
  /\ total = [c \in Callers |-> 0]
  /\ result = [c \in Callers |-> NoResult]
  /\ obs = [c \in Callers |->
              IF c = 1 THEN [NoObs EXCEPT !.conn = 1]
              ELSE NoObs]

Init == InitWith({1})

InitConc == InitWith(Callers)

Serving == \A c \in Callers : op[c] # "startup"

\* ------------------------------------------------------- conectar_pinecone
\* the call itself: control enters the try block of a fresh invocation
CallConnect(c, site) ==
  /\ loc' = [loc EXCEPT ![c] = "c_open"]
  /\ cont' = [cont EXCEPT ![c] = site]
  /\ obs' = [obs EXCEPT ![c].conn = @ + 1,
                        ![c].att = 0, ![c].delay = 0]

\* lines 40 and 43: pc = Pinecone(...); index = pc.Index(...)
ConnOpen(c) ==
  /\ loc[c] = "c_open"
  /\ obs[c].att < MaxAttempts
  /\ obs' = [obs EXCEPT ![c].att = @ + 1]
  /\ \E out \in {"client_raises", "index_raises", "opened"} :
       /\ pc' = IF out = "client_raises" THEN pc ELSE TRUE
       /\ index' = IF out = "opened" THEN NewHandle ELSE index
       /\ loc' = [loc EXCEPT ![c] = IF out = "opened" THEN "c_probe" ELSE "c_read"]
  /\ probed' = IF index' # index THEN NoHandle ELSE probed
  /\ UNCHANGED <<connection_attempts, vectors, active, op, args, cont, cret,
                 tmp, errs, e, total, result>>

\* line 46: stats = index.describe_index_stats()
ConnProbe(c) ==
  /\ loc[c] = "c_probe"
  /\ \E ok \in BOOLEAN :
       /\ loc' = [loc EXCEPT ![c] = IF ok THEN "c_reset" ELSE "c_read"]
       /\ obs' = [obs EXCEPT ![c].statsOk = IF ok THEN @ + 1 ELSE @]
       /\ probed' = IF ok THEN index ELSE probed
  /\ UNCHANGED <<globals, vectors, active, op, args, cont, cret, tmp, errs, e,
                 total, result>>

CounterKept(n) == n

\* line 51: the value connection_attempts takes after a successful probe
CounterAfterSuccess(n) == 0

\* lines 51-52: connection_attempts = 0; return True
ConnReset(c) ==
  /\ loc[c] = "c_reset"
  /\ connection_attempts' = CounterAfterSuccess(connection_attempts)
  /\ cret' = [cret EXCEPT ![c] = TRUE]
  /\ loc' = [loc EXCEPT ![c] = "c_ret"]
  /\ obs' = [obs EXCEPT ![c].connOk = @ + 1]
  /\ UNCHANGED <<pc, index, vectors, active, probed, op, args, cont, tmp, errs, e,
                 total, result>>

\* line 55, first half: the read of connection_attempts += 1
ConnRead(c) ==
  /\ loc[c] = "c_read"
  /\ tmp' = [tmp EXCEPT ![c] = connection_attempts]
  /\ loc' = [loc EXCEPT ![c] = "c_write"]
  /\ UNCHANGED <<globals, vectors, active, probed, op, args, cont, cret, errs, e,
                 total, result, obs>>

\* line 55, second half: the write of connection_attempts += 1
ConnWrite(c) ==
  /\ loc[c] = "c_write"
  /\ tmp[c] + 1 <= MaxCounter
  /\ connection_attempts' = tmp[c] + 1
  /\ tmp' = [tmp EXCEPT ![c] = 0]
  /\ loc' = [loc EXCEPT ![c] = "c_check"]
  /\ UNCHANGED <<pc, index, vectors, active, probed, op, args, cont, cret, errs, e,
                 total, result, obs>>

MayRetryAtBound(n) == n <= MAX_RECONNECT_ATTEMPTS

\* line 58: if connection_attempts < MAX_RECONNECT_ATTEMPTS
MayRetry(n) == n < MAX_RECONNECT_ATTEMPTS

\* lines 58-62: below the bound, sleep and call conectar_pinecone again
ConnRetry(c) ==
  /\ loc[c] = "c_check"
  /\ MayRetry(connection_attempts)
  /\ loc' = [loc EXCEPT ![c] = "c_open"]
  /\ obs' = [obs EXCEPT ![c].delay = @ + 1]
  /\ UNCHANGED <<globals, vectors, active, probed, op, args, cont, cret, tmp, errs, e,
                 total, result>>

ConnGiveUpClearing(c) ==
  /\ loc[c] = "c_check"
  /\ ~MayRetry(connection_attempts)
  /\ cret' = [cret EXCEPT ![c] = FALSE]
  /\ loc' = [loc EXCEPT ![c] = "c_ret"]
  /\ index' = NoHandle
  /\ UNCHANGED <<pc, connection_attempts, vectors, active, probed, op, args, cont, tmp, errs, e,
                 total, result, obs>>

\* lines 63-65: return False
ConnGiveUp(c) ==
  /\ loc[c] = "c_check"
  /\ ~MayRetry(connection_attempts)
  /\ cret' = [cret EXCEPT ![c] = FALSE]
  /\ loc' = [loc EXCEPT ![c] = "c_ret"]
  /\ UNCHANGED <<globals, vectors, active, probed, op, args, cont, tmp, errs, e,
                 total, result, obs>>

\* The frame of a conectar_pinecone call is dropped when the call returns:
\* what is kept of it is the number of calls and of successful ones.
Returned(o) == [o EXCEPT !.att = 0, !.delay = 0]

\* line 68: conexao_bem_sucedida = conectar_pinecone(); the server starts
StartupDone(c) ==
  /\ loc[c] = "c_ret"
  /\ cont[c] = "startup"
  /\ loc' = [loc EXCEPT ![c] = "idle"]
  /\ op' = [op EXCEPT ![c] = "none"]
  /\ cont' = [cont EXCEPT ![c] = "none"]
  /\ cret' = [cret EXCEPT ![c] = FALSE]
  /\ tmp' = [tmp EXCEPT ![c] = 0]
  /\ obs' = [obs EXCEPT ![c] = NoObs]
  /\ UNCHANGED <<globals, vectors, active, probed, args, errs, e, total, result>>

\* ---------------------------------------------------------------- requests
\* A request arrives on an idle thread of the pool.
Begin(c, o, a) ==
  /\ c \in active
  /\ Serving
  /\ loc[c] = "idle"
  /\ op' = [op EXCEPT ![c] = o]
  /\ args' = [args EXCEPT ![c] = a]
  /\ obs' = [obs EXCEPT ![c] = NoObs]
  /\ UNCHANGED <<globals, vectors, active, probed, cont, cret, tmp, errs, e, total,
                 result>>

\* GET /contratos?skip&limit
StartList(c) ==
  \E s \in 0..MaxSkip, l \in 0..MaxLimit :
    /\ Begin(c, "list", [skip |-> s, limit |-> l, q |-> ""])
    /\ loc' = [loc EXCEPT ![c] = FirstStep("list")]

\* GET /contratos/busca?q&limit
StartSearch(c) ==
  \E q \in {"", "aluguel"}, l \in 0..MaxLimit :
    /\ Begin(c, "search", [skip |-> 0, limit |-> l, q |-> q])
    /\ loc' = [loc EXCEPT ![c] = FirstStep("search")]

\* GET /contratos/arquivos
StartFiles(c) ==
  /\ Begin(c, "files", NoArgs)
  /\ loc' = [loc EXCEPT ![c] = FirstStep("files")]

\* GET /
StartHealth(c) ==
  /\ Begin(c, "health", NoArgs)
  /\ loc' = [loc EXCEPT ![c] = "h_check"]

\* The request ends: r is returned or raised to the client.
Finish(c, r) ==
  /\ loc' = [loc EXCEPT ![c] = "done"]
  /\ result' = [result EXCEPT ![c] = r]
  /\ errs' = [errs EXCEPT ![c] = <<>>]

\* lines 235-236: if not q: raise HTTPException(400)
QCheck(c) ==
  /\ loc[c] = "qcheck"
  /\ IF args[c].q = ""
       THEN Finish(c, Unwind(errs[c], Fail400))
       ELSE /\ loc' = [loc EXCEPT ![c] = "pre"]
            /\ UNCHANGED <<errs, result>>
  /\ UNCHANGED <<globals, vectors, active, probed, op, args, cont, cret, tmp, e,
                 total, obs>>

\* lines 172, 239, 289: `if not index and ...`, index is set
PreConnected(c) ==
  /\ loc[c] = "pre"
  /\ HasHandle(index)
  /\ loc' = [loc EXCEPT ![c] = BodyStart(op[c])]
  /\ UNCHANGED <<globals, vectors, active, probed, op, args, cont, cret, tmp, errs, e,
                 total, result, obs>>

\* lines 172, 239, 289: `if not index and not conectar_pinecone()`, index is None
PreConnect(c) ==
  /\ loc[c] = "pre"
  /\ ~HasHandle(index)
  /\ loc' = [loc EXCEPT ![c] = "c_open"]
  /\ cont' = [cont EXCEPT ![c] = "pre"]
  /\ obs' = [obs EXCEPT ![c].conn = @ + 1, ![c].preconn = @ + 1,
                        ![c].att = 0, ![c].delay = 0]
  /\ UNCHANGED <<globals, vectors, active, probed, op, args, cret, tmp, errs, e,
                 total, result>>

\* lines 172-176, 239-243, 289-293: conectar_pinecone returned to the check
PreReturn(c) ==
  /\ loc[c] = "c_ret"
  /\ cont[c] = "pre"
  /\ cont' = [cont EXCEPT ![c] = "none"]
  /\ IF Unavailable(cret[c])
       THEN Finish(c, Unwind(errs[c], Fail503))
       ELSE /\ loc' = [loc EXCEPT ![c] = BodyStart(op[c])]
            /\ UNCHANGED <<errs, result>>
  /\ cret' = [cret EXCEPT ![c] = FALSE]
  /\ obs' = [obs EXCEPT ![c] = Returned(@)]
  /\ UNCHANGED <<globals, vectors, active, probed, op, args, tmp, e, total>>

\* An exception e of kind k leaves the try block: control is in `except`.
Raise(c, k) ==
  /\ e' = [e EXCEPT ![c] = Err(k, obs'[c].body)]
  /\ loc' = [loc EXCEPT ![c] = "handler"]

\* line 247: query_embedding = gerar_embedding(q)   (lines 81-90)
BodyEmbed(c) ==
  /\ loc[c] = "embed"
  /\ \E ok \in BOOLEAN :
       /\ obs' = [obs EXCEPT ![c].body = @ + 1, ![c].embed = @ + 1,
                             ![c].hist = IF ok THEN @ ELSE Append(@, "embed")]
       /\ IF ok
            THEN /\ loc' = [loc EXCEPT ![c] = "query"]
                 /\ UNCHANGED e
            ELSE Raise(c, "embed")
  /\ UNCHANGED <<globals, vectors, active, probed, op, args, cont, cret, tmp, errs,
                 total, result>>

\* lines 180-181, 297-298: stats = index.describe_index_stats(); total = ...
BodyStats(c) ==
  /\ loc[c] = "stats"
  /\ \E ok \in BOOLEAN :
       /\ obs' = [obs EXCEPT ![c].body = @ + 1, ![c].store = @ + 1,
                             ![c].stat = IF ok THEN vectors ELSE @,
                             ![c].statsOk = IF ok THEN @ + 1 ELSE @,
                             ![c].hist = IF ok THEN @ ELSE Append(@, "stats")]
       /\ IF ok
            THEN /\ loc' = [loc EXCEPT ![c] = "query"]
                 /\ total' = [total EXCEPT ![c] = vectors]
                 /\ UNCHANGED e
            ELSE /\ Raise(c, "stats")
                 /\ UNCHANGED total
  /\ UNCHANGED <<globals, vectors, active, probed, op, args, cont, cret, tmp, errs,
                 result>>

\* the response each handler builds from the matches of its query
Response(o, a, ms, tot) ==
  CASE o = "list" -> ListResponse(ms, a.skip, a.limit, tot)
    [] o = "search" -> SearchResponse(ms)
    [] OTHER -> FilesResponse(ms)

\* lines 193-210, 250-266, 309-322: the query raises
BodyQueryFails(c) ==
  /\ loc[c] = "query"
  /\ obs' = [obs EXCEPT ![c].store = @ + 1,
                        ![c].hist = Append(@, "query"),
                        ![c].vec = IF op[c] = "search" THEN "embedding" ELSE "zeros",
                        ![c].topk = TopK(op[c], args[c], total[c])]
  /\ Raise(c, "query")
  /\ UNCHANGED <<globals, vectors, active, probed, op, args, cont, cret, tmp, errs,
                 total, result>>

\* lines 193-210, 250-266, 309-322: the query answers, the response is built
BodyQuery(c) ==
  /\ loc[c] = "query"
  /\ \E ms \in StoreAnswers(TopK(op[c], args[c], total[c]), vectors) :
       /\ obs' = [obs EXCEPT ![c].store = @ + 1,
                             ![c].hist = Append(@, "ok"),
                             ![c].vec = IF op[c] = "search" THEN "embedding" ELSE "zeros",
                             ![c].topk = TopK(op[c], args[c], total[c]),
                             ![c].resp = ms]
       /\ Finish(c, Unwind(errs[c], Response(op[c], args[c], ms, total[c])))
  /\ UNCHANGED <<globals, vectors, active, probed, op, args, cont, cret, tmp, e, total>>

\* lines 216, 272, 328: `except Exception as e: ... if conectar_pinecone():`
Handler(c) ==
  /\ loc[c] = "handler"
  /\ CallConnect(c, "handler")
  /\ UNCHANGED <<globals, vectors, active, probed, op, args, cret, tmp, errs, e,
                 total, result>>

\* lines 216-219, 272-275, 328-331: reconnected, the handler calls itself
Replay(c) ==
  /\ loc[c] = "c_ret"
  /\ cont[c] = "handler"
  /\ cret[c]
  /\ Len(errs[c]) + 1 < MaxDepth
  /\ cont' = [cont EXCEPT ![c] = "none"]
  /\ errs' = [errs EXCEPT ![c] = Append(@, e[c])]
  /\ e' = [e EXCEPT ![c] = NoErr]
  /\ loc' = [loc EXCEPT ![c] = FirstStep(op[c])]
  /\ cret' = [cret EXCEPT ![c] = FALSE]
  /\ obs' = [obs EXCEPT ![c] = Returned(@)]
  /\ UNCHANGED <<globals, vectors, active, probed, op, args, tmp, total, result>>

HandlerFailsClearing(c) ==
  /\ loc[c] = "c_ret"
  /\ cont[c] = "handler"
  /\ ~cret[c]
  /\ cont' = [cont EXCEPT ![c] = "none"]
  /\ Finish(c, Unwind(errs[c], Fail500(e[c])))
  /\ cret' = [cret EXCEPT ![c] = FALSE]
  /\ obs' = [obs EXCEPT ![c] = Returned(@)]
  /\ index' = NoHandle
  /\ UNCHANGED <<pc, connection_attempts, vectors, active, probed, op, args,
                 tmp, e, total>>

\* lines 216/223, 272/279, 328/335: not reconnected, raise HTTPException(500)
HandlerFails(c) ==
  /\ loc[c] = "c_ret"
  /\ cont[c] = "handler"
  /\ ~cret[c]
  /\ cont' = [cont EXCEPT ![c] = "none"]
  /\ Finish(c, Unwind(errs[c], Fail500(e[c])))
  /\ cret' = [cret EXCEPT ![c] = FALSE]
  /\ obs' = [obs EXCEPT ![c] = Returned(@)]
  /\ UNCHANGED <<globals, vectors, active, probed, op, args, tmp, e, total>>

\* ------------------------------------------------------------- read_root
HealthBody(s, p, n, err) ==
  [NoResult EXCEPT !.code = 200, !.status = s, !.pinecone_status = p,
                   !.total = n, !.detail = err]

HealthElseOnline(connected) ==
  HealthBody("online", "reconectado", 0, NoErr)

\* lines 140-151: the response of the else branch
HealthElse(connected) ==
  IF connected THEN HealthBody("online", "reconectado", 0, NoErr)
  ELSE HealthBody("parcial", "desconectado", 0, NoErr)

\* line 129: if index:
HealthCheck(c) ==
  /\ loc[c] = "h_check"
  /\ IF HasHandle(index)
       THEN /\ loc' = [loc EXCEPT ![c] = "h_stats"]
            /\ UNCHANGED <<cont, obs>>
       ELSE CallConnect(c, "h_else")
  /\ UNCHANGED <<globals, vectors, active, probed, op, args, cret, tmp, errs, e,
                 total, result>>

\* lines 131-137 and 152-154: stats = index.describe_index_stats()
HealthStats(c) ==
  /\ loc[c] = "h_stats"
  /\ \E ok \in BOOLEAN :
       IF ok
         THEN /\ obs' = [obs EXCEPT ![c].store = @ + 1, ![c].stat = vectors,
                                    ![c].statsOk = @ + 1]
              /\ Finish(c, HealthBody("online", "conectado", vectors, NoErr))
              /\ UNCHANGED <<cont, e>>
         ELSE /\ e' = [e EXCEPT ![c] = Err("stats", 1)]
              /\ loc' = [loc EXCEPT ![c] = "c_open"]
              /\ cont' = [cont EXCEPT ![c] = "h_except"]
              /\ obs' = [obs EXCEPT ![c].store = @ + 1, ![c].conn = @ + 1,
                                                ![c].att = 0, ![c].delay = 0]
              /\ UNCHANGED <<errs, result>>
  /\ UNCHANGED <<globals, vectors, active, probed, op, args, cret, tmp, total>>

\* lines 140-151: conectar_pinecone returned to the else branch
HealthElseReturn(c) ==
  /\ loc[c] = "c_ret"
  /\ cont[c] = "h_else"
  /\ cont' = [cont EXCEPT ![c] = "none"]
  /\ Finish(c, HealthElse(cret[c]))
  /\ cret' = [cret EXCEPT ![c] = FALSE]
  /\ obs' = [obs EXCEPT ![c] = Returned(@)]
  /\ UNCHANGED <<globals, vectors, active, probed, op, args, tmp, e, total>>

\* lines 154-159: conectar_pinecone returned to the except branch
HealthExceptReturn(c) ==
  /\ loc[c] = "c_ret"
  /\ cont[c] = "h_except"
  /\ cont' = [cont EXCEPT ![c] = "none"]
  /\ Finish(c, HealthBody("degradado", "", 0, e[c]))
  /\ cret' = [cret EXCEPT ![c] = FALSE]
  /\ obs' = [obs EXCEPT ![c] = Returned(@)]
  /\ UNCHANGED <<globals, vectors, active, probed, op, args, tmp, e, total>>

\* The response is sent; the thread returns to the pool.
Respond(c) ==
  /\ loc[c] = "done"
  /\ loc' = [loc EXCEPT ![c] = "idle"]
  /\ op' = [op EXCEPT ![c] = "none"]
  /\ args' = [args EXCEPT ![c] = NoArgs]
  /\ cret' = [cret EXCEPT ![c] = FALSE]
  /\ tmp' = [tmp EXCEPT ![c] = 0]
  /\ e' = [e EXCEPT ![c] = NoErr]
  /\ total' = [total EXCEPT ![c] = 0]
  /\ result' = [result EXCEPT ![c] = NoResult]
  /\ obs' = [obs EXCEPT ![c] = NoObs]
  /\ UNCHANGED <<globals, vectors, active, probed, cont, errs>>

\* ------------------------------------------------------------ specification
Next ==
  \E c \in Callers :
    \/ ConnOpen(c) \/ ConnProbe(c) \/ ConnReset(c)
    \/ ConnRead(c) \/ ConnWrite(c) \/ ConnRetry(c) \/ ConnGiveUp(c)
    \/ StartupDone(c)
    \/ StartList(c) \/ StartSearch(c) \/ StartFiles(c) \/ StartHealth(c)
    \/ QCheck(c) \/ PreConnected(c) \/ PreConnect(c) \/ PreReturn(c)
    \/ BodyEmbed(c) \/ BodyStats(c) \/ BodyQuery(c) \/ BodyQueryFails(c)
    \/ Handler(c) \/ Replay(c) \/ HandlerFails(c)
    \/ HealthCheck(c) \/ HealthStats(c)
    \/ HealthElseReturn(c) \/ HealthExceptReturn(c)
    \/ Respond(c)

\* one request thread
Spec == Init /\ [][Next]_vars

\* Two request threads that serve GET / concurrently: their calls of
\* conectar_pinecone interleave on the shared globals.
NextConc ==
  \E c \in Callers :
    \/ ConnOpen(c) \/ ConnProbe(c) \/ ConnReset(c)
    \/ ConnRead(c) \/ ConnWrite(c) \/ ConnRetry(c) \/ ConnGiveUp(c)
    \/ StartupDone(c)
    \/ StartHealth(c) \/ HealthCheck(c) \/ HealthStats(c)
    \/ HealthElseReturn(c) \/ HealthExceptReturn(c)
    \/ Respond(c)

SpecConc == InitConc /\ [][NextConc]_vars

\* Thread 1 serves GET /contratos/arquivos, the handler that issues both a
\* stats and a query call, on an empty index while thread 2 serves GET /:
\* the handler of thread 1 interleaves with the conectar_pinecone calls of
\* thread 2.
InitMix == InitConc /\ vectors = 0

NextMix ==
  \/ \E c \in Callers :
       \/ ConnOpen(c) \/ ConnProbe(c) \/ ConnReset(c)
       \/ ConnRead(c) \/ ConnWrite(c) \/ ConnRetry(c) \/ ConnGiveUp(c)
       \/ StartupDone(c) \/ Respond(c)
  \/ \E c \in {1} :
       \/ StartFiles(c)
       \/ PreConnected(c) \/ PreConnect(c) \/ PreReturn(c)
       \/ BodyStats(c) \/ BodyQuery(c) \/ BodyQueryFails(c)
       \/ Handler(c) \/ Replay(c) \/ HandlerFails(c)
  \/ \E c \in {2} :
       \/ StartHealth(c) \/ HealthCheck(c) \/ HealthStats(c)
       \/ HealthElseReturn(c) \/ HealthExceptReturn(c)

SpecMix == InitMix /\ [][NextMix]_vars

\* One thread serves GET / and keeps running: a thread inside
\* conectar_pinecone takes its next step, and time.sleep(2) returns.
ConnStep(c) ==
  \/ ConnOpen(c) \/ ConnProbe(c) \/ ConnReset(c)
  \/ ConnRead(c) \/ ConnWrite(c) \/ ConnRetry(c) \/ ConnGiveUp(c)

SpecLive == Init /\ [][NextConc]_vars /\ \A c \in Callers : WF_vars(ConnStep(c))

\* ------------------------------------------------------------------ claims
Done(c, o) == loc[c] = "done" /\ op[c] = o

\* calls of conectar_pinecone made by the `except` clauses of the request
HandlerCalls(c) == obs[c].conn - obs[c].preconn

Max(a, b) == IF a >= b THEN a ELSE b

\* C1: in a list, search or distinctFiles request the try block runs at most
\* twice, and the `except` clauses reconnect at most once, whatever the
\* store does.
C1_AtMostOneRetry ==
  \A c \in Callers :
    op[c] \in Ops => obs[c].body <= 2 /\ HandlerCalls(c) <= 1

\* C2: a call of conectar_pinecone that returns False has made exactly
\* MAX_RECONNECT_ATTEMPTS attempts, with one sleep between consecutive
\* attempts, whatever the connection state it started from.
C2_ExactlyMaxAttempts ==
  \A c \in Callers :
    (loc[c] = "c_ret" /\ ~cret[c]) =>
      /\ obs[c].att = MAX_RECONNECT_ATTEMPTS
      /\ obs[c].delay = MAX_RECONNECT_ATTEMPTS - 1

\* C3 as stated: a list, search or distinctFiles request during which every
\* call of conectar_pinecone failed ends with 503, having called neither the
\* embedding provider nor describe_index_stats/query on the handle, also
\* when index was set when the request started.
C3_UnreachableIs503 ==
  \A c \in Callers :
    (loc[c] = "done" /\ op[c] \in Ops /\ obs[c].conn >= 1 /\ obs[c].connOk = 0) =>
      /\ result[c].code = 503
      /\ obs[c].embed = 0
      /\ obs[c].store = 0

\* C3: a list, search or distinctFiles request that finds index = None and
\* during which every call of conectar_pinecone failed ends with 503, having
\* called neither the embedding provider nor describe_index_stats/query.
C3_NullHandleUnreachableIs503 ==
  \A c \in Callers :
    (loc[c] = "done" /\ op[c] \in Ops /\ obs[c].preconn >= 1 /\ obs[c].connOk = 0) =>
      /\ result[c].code = 503
      /\ obs[c].embed = 0
      /\ obs[c].store = 0

C3_Witness ==
  \E c \in Callers :
    /\ Done(c, "search") /\ obs[c].preconn = 1 /\ obs[c].connOk = 0
    /\ index = NoHandle
    /\ result[c].code = 503

\* C4: whenever conectar_pinecone returns False, index is None.
C4_FailureLeavesHandleUnset ==
  \A c \in Callers :
    (loc[c] = "c_ret" /\ ~cret[c]) => index = NoHandle

\* C5: a search request with an empty q ends with 400 without any call of
\* conectar_pinecone, of the embedding provider or of the store, and no step
\* taken while it is served changes index or connection_attempts.
C5_EmptyQueryRejected ==
  /\ [](\A c \in Callers :
          Done(c, "search") /\ args[c].q = "" =>
            /\ result[c].code = 400
            /\ obs[c].conn = 0 /\ obs[c].att = 0
            /\ obs[c].embed = 0 /\ obs[c].store = 0)
  /\ [][(\E c \in Callers : op[c] = "search" /\ args[c].q = "")
          => UNCHANGED <<index, connection_attempts>>]_vars

C5_Witness ==
  \E c \in Callers :
    /\ Done(c, "search") /\ args[c].q = "" /\ result[c].code = 400
    /\ connection_attempts > 0

\* C6: when the embedding call of a search request fails, the provider has
\* been called once, no `except` clause calls conectar_pinecone, the try
\* block is not run again, and the request ends with 500.
C6_EmbeddingNotRetried ==
  \A c \in Callers :
    (op[c] = "search" /\ obs[c].hist # <<>> /\ obs[c].hist[1] = "embed") =>
      /\ obs[c].embed = 1
      /\ obs[c].body = 1
      /\ HandlerCalls(c) = 0
      /\ loc[c] = "done" => result[c].code = 500

\* C7: when the first run of the try block fails on a store call through a
\* handle the request found in place, the reconnect succeeds and the second
\* run succeeds, the request returns the response of the second run, after
\* exactly two runs and exactly one call of conectar_pinecone.
C7_ReplaySucceeds ==
  \A c \in Callers :
    ( /\ loc[c] = "done" /\ op[c] \in Ops
      /\ obs[c].preconn = 0
      /\ Len(obs[c].hist) >= 2
      /\ obs[c].hist[1] \in {"stats", "query"}
      /\ obs[c].hist[2] = "ok" ) =>
      /\ result[c].code = 200
      /\ result[c] = Response(op[c], args[c], obs[c].resp, total[c])
      /\ obs[c].body = 2
      /\ obs[c].conn = 1 /\ obs[c].connOk = 1

C7_Witness ==
  \E c \in Callers :
    /\ Done(c, "list") /\ obs[c].preconn = 0
    /\ obs[c].hist = <<"query", "ok">>
    /\ result[c].code = 200 /\ result[c].resultados # <<>>

\* C8: with request threads interleaving on the globals, no call of
\* conectar_pinecone makes more than MAX_RECONNECT_ATTEMPTS attempts.
C8_AttemptsBounded ==
  \A c \in Callers : obs[c].att <= MAX_RECONNECT_ATTEMPTS

\* C9: a successful list(skip, limit) has queried the zero vector with
\* top_k = skip + limit; its hits are the matches at positions
\* skip+1 .. skip+limit of the store's answer, in order, each mapped to a
\* ContratoResponse (none when the answer has at most skip matches, when
\* limit = 0 or when the index is empty); total is the count the stats call
\* of that run reported.
C9_ListWindow ==
  \A c \in Callers :
    (Done(c, "list") /\ result[c].code = 200) =>
      LET a == args[c]
          ms == obs[c].resp
          hits == result[c].resultados
          n == Max(0, Min(a.limit, Len(ms) - a.skip))
      IN /\ obs[c].vec = "zeros"
         /\ obs[c].topk = a.skip + a.limit
         /\ Len(hits) = n
         /\ Len(hits) <= a.limit
         /\ \A i \in 1..n : hits[i] = ContratoResponse(ms[a.skip + i])
         /\ (Len(ms) <= a.skip \/ a.limit = 0 \/ vectors = 0) => hits = <<>>
         /\ result[c].total = obs[c].stat
         /\ result[c].total = vectors

C9_Witness ==
  \E c \in Callers :
    /\ Done(c, "list") /\ result[c].code = 200
    /\ args[c].skip = 1 /\ args[c].limit = 1
    /\ Len(obs[c].resp) = 2
    /\ Len(result[c].resultados) = 1

\* C10: a successful search(q, limit) returns the store's answer mapped
\* match by match in the same order, so at most limit hits with
\* non-increasing scores, and total = len(hits); on an empty index it
\* returns no hits and total 0.
C10_SearchHits ==
  \A c \in Callers :
    (Done(c, "search") /\ result[c].code = 200) =>
      LET ms == obs[c].resp
          hits == result[c].resultados
      IN /\ obs[c].vec = "embedding"
         /\ obs[c].topk = args[c].limit
         /\ Len(hits) = Len(ms)
         /\ \A i \in 1..Len(ms) : hits[i] = ContratoResponse(ms[i])
         /\ Len(hits) <= args[c].limit
         /\ \A i \in 1..(Len(hits) - 1) : hits[i].score >= hits[i + 1].score
         /\ result[c].total = Len(hits)
         /\ vectors = 0 => (hits = <<>> /\ result[c].total = 0)

C10_Witness ==
  \E c \in Callers :
    /\ Done(c, "search") /\ result[c].code = 200
    /\ Len(result[c].resultados) = 2
    /\ result[c].resultados[1].score > result[c].resultados[2].score

\* C11: a successful distinctFiles has queried the zero vector with
\* top_k = min(total, 1000), total being the count its stats call reported;
\* the list it returns has no filename twice, and each of its elements is
\* the "arquivo" value of some match of that query.
C11_DistinctFiles ==
  \A c \in Callers :
    (Done(c, "files") /\ result[c].code = 200) =>
      LET ms == obs[c].resp
          fs == result[c].arquivos
      IN /\ obs[c].vec = "zeros"
         /\ total[c] = obs[c].stat
         /\ obs[c].topk = (IF obs[c].stat <= FILES_CAP THEN obs[c].stat ELSE FILES_CAP)
         /\ \A i, j \in 1..Len(fs) : fs[i] = fs[j] => i = j
         /\ \A i \in 1..Len(fs) :
              \E k \in 1..Len(ms) :
                /\ "arquivo" \in DOMAIN ms[k].metadata
                /\ ms[k].metadata.arquivo = fs[i]

C11_Witness ==
  \E c \in Callers :
    /\ Done(c, "files") /\ result[c].code = 200
    /\ Len(obs[c].resp) = 2
    /\ Arquivo(obs[c].resp[1]) = "a.pdf" /\ Arquivo(obs[c].resp[2]) = "a.pdf"
    /\ result[c].arquivos = <<"a.pdf">>

\* C12: GET / always answers (never an HTTPException) with status online,
\* parcial or degradado; it answers online only if a describe_index_stats
\* call answered during the request (on the handle in place or as the probe
\* of conectar_pinecone), so parcial or degradado when none did.
C12_HealthDegrades ==
  \A c \in Callers :
    Done(c, "health") =>
      /\ result[c].code = 200
      /\ result[c].status \in {"online", "parcial", "degradado"}
      /\ result[c].status = "online" => obs[c].statsOk >= 1
      /\ obs[c].statsOk = 0 => result[c].status \in {"parcial", "degradado"}

C12_Witness ==
  \E c \in Callers :
    /\ Done(c, "health") /\ obs[c].statsOk = 0
    /\ obs[c].conn = 1
    /\ result[c].status = "parcial"

\* C13: when conectar_pinecone returns True to the only request thread,
\* connection_attempts is 0 and index is set to the handle whose
\* describe_index_stats answered in the final attempt, whatever the counter
\* was when the call started; a call made because index is None starts with
\* connection_attempts at or above MAX_RECONNECT_ATTEMPTS.
C13_SuccessState ==
  \A c \in Callers :
    /\ (loc[c] = "c_ret" /\ cret[c]) =>
          /\ connection_attempts = 0
          /\ index # NoHandle
          /\ index = probed
    /\ (loc[c] = "c_open" /\ cont[c] \in {"pre", "h_else"} /\ obs[c].att = 0) =>
          connection_attempts >= MAX_RECONNECT_ATTEMPTS

C13_Witness ==
  \E c \in Callers :
    /\ loc[c] = "c_ret" /\ cret[c]
    /\ cont[c] = "pre" /\ obs[c].att = 1
    /\ index = probed /\ connection_attempts = 0

C15_OnlyConnectWrites ==
  [][ <<index, connection_attempts>>' # <<index, connection_attempts>> =>
        \E c \in Callers :
          /\ loc[c] \in {"c_open", "c_reset", "c_write"}
          /\ loc'[c] # loc[c] ]_vars

C15_Witness ==
  \E c \in Callers :
    /\ Done(c, "search") /\ result[c].code = 200
    /\ obs[c].conn = 0 /\ obs[c].embed = 1 /\ obs[c].store >= 1
    /\ index # NoHandle /\ connection_attempts = 0

\* C16: a list, search or distinctFiles request whose first run of the try
\* block failed on a store call, and whose reconnect then failed or whose
\* replay did not succeed, ends with 500 whose detail is the error of that
\* first run, never with a success.
C16_FirstErrorSurfaces ==
  \A c \in Callers :
    ( /\ loc[c] = "done" /\ op[c] \in Ops
      /\ obs[c].hist # <<>>
      /\ obs[c].hist[1] \in {"stats", "query"}
      /\ (Len(obs[c].hist) = 1 \/ obs[c].hist[2] # "ok") ) =>
      /\ result[c].code = 500
      /\ result[c].detail = Err(obs[c].hist[1], 1)

\* C17: with a single request thread, every call of conectar_pinecone
\* returns, whatever the store answers and whatever connection_attempts was
\* when it started, after at most MAX_RECONNECT_ATTEMPTS attempts (its
\* recursion depth) and at most MAX_RECONNECT_ATTEMPTS - 1 sleeps.  Calls
\* whose increment would pass MaxCounter are followed up to the increment.
InConnect(c) ==
  loc[c] \in {"c_open", "c_probe", "c_reset", "c_read", "c_write", "c_check"}

AtCounterBound(c) == loc[c] = "c_write" /\ tmp[c] >= MaxCounter

C17_ConnectTerminates ==
  /\ [](\A c \in Callers :
          /\ obs[c].att <= MAX_RECONNECT_ATTEMPTS
          /\ obs[c].delay <= MAX_RECONNECT_ATTEMPTS - 1)
  /\ \A c \in Callers :
       InConnect(c) ~> (loc[c] = "c_ret" \/ AtCounterBound(c))

C17_Witness ==
  \E c \in Callers :
    /\ loc[c] = "c_ret" /\ ~cret[c]
    /\ obs[c].att = MAX_RECONNECT_ATTEMPTS
    /\ obs[c].delay = MAX_RECONNECT_ATTEMPTS - 1

\* C18: once index holds a handle, no step sets it back to None, not even
\* a failing attempt or the give-up of conectar_pinecone; a step that
\* changes index is an open of line 43 and stores a handle that is new and
\* has not answered describe_index_stats.
C18_HandleMonotone ==
  [][ /\ index # NoHandle => index' # NoHandle
      /\ index' # index =>
            /\ index' \in Handles
            /\ probed' = NoHandle
            /\ \E c \in Callers : loc[c] = "c_open" /\ loc'[c] = "c_probe" ]_vars

C18_Witness ==
  \E c \in Callers :
    /\ loc[c] = "c_ret" /\ ~cret[c] /\ cont[c] = "handler"
    /\ index # NoHandle /\ probed = NoHandle

====
